---------------------------- MODULE Spec2Model ----------------------------
(***************************************************************************)
(* A model of pretty-plex (src/main.py): Movie.parse and its file and      *)
(* directory entry points, Collection.parse_path, Collection.add_movie,    *)
(* Collection.sort and the table renderer Collection._table.               *)
(*                                                                         *)
(* A Python str is a sequence of one-character strings.  Names are single  *)
(* line: the line feed, the only character the regular expression's `.`    *)
(* refuses, is not in the alphabet the names are drawn from.  An Optional  *)
(* value is None (the empty tuple) or Some(v) (the one-element tuple).     *)
(***************************************************************************)
EXTENDS Integers, Sequences, FiniteSets, Bags, TLC

VARIABLES
    pc,          \* position of the operation being run
    form,        \* how the name handed to Movie.parse was put together
    name,        \* the directory entry name under parse
    ret,         \* what parse_directory / parse_file returned or raised
    collection,  \* Collection.collection
    added,       \* the bag of records handed to add_movie so far
    op,          \* the last Collection operation and its argument
    err,         \* the exception the last Collection operation raised
    rendered,    \* the string the last _table call returned
    dirs,        \* os.walk's directory names, in traversal order
    files,       \* os.walk's file names, in traversal order
    idx,         \* parse_path: the next entry of the running loop
    c,           \* parse_path: the collection under construction
    seen,        \* parse_path: the entries handed to Movie.parse so far
    out          \* parse_path: what the caller got

vars == <<pc, form, name, ret, collection, added, op, err, rendered,
          dirs, files, idx, c, seen, out>>

(***************************************************************************)
(* Bounds of the model.                                                    *)
(***************************************************************************)
MaxPairs == 2
MaxMovies == 3
MaxEntries == 2

(***************************************************************************)
(* Strings.                                                                *)
(***************************************************************************)
Chars(s) == [i \in 1..Len(s) |-> SubSeq(s, i, i)]

None == <<>>
Some(v) == <<v>>
IsNone(o) == o = <<>>
Val(o) == o[1]

Max(a, b) == IF a >= b THEN a ELSE b

\* \d of the regular expression and the digit values int() reads
Digits == {"0", "1", "2", "3", "4", "5", "6", "7", "8", "9"}
DigitVal(d) ==
    CASE d = "0" -> 0 [] d = "1" -> 1 [] d = "2" -> 2 [] d = "3" -> 3
      [] d = "4" -> 4 [] d = "5" -> 5 [] d = "6" -> 6 [] d = "7" -> 7
      [] d = "8" -> 8 [] d = "9" -> 9

\* int(s) of a string of decimal digits
RECURSIVE ParseInt(_)
ParseInt(s) ==
    IF s = <<>> THEN 0
    ELSE 10 * ParseInt(SubSeq(s, 1, Len(s) - 1)) + DigitVal(s[Len(s)])

\* str(n) of a natural number: decimal, no padding
DigitChar(n) == SubSeq("0123456789", n + 1, n + 1)
RECURSIVE Str(_)
Str(n) == IF n < 10 THEN <<DigitChar(n)>> ELSE Str(n \div 10) \o <<DigitChar(n % 10)>>

\* s starts with t at index i
StartsAt(s, t, i) ==
    /\ i >= 1
    /\ i + Len(t) - 1 <= Len(s)
    /\ \A j \in 1..Len(t) : s[i + j - 1] = t[j]

\* str.split(sep): cut at each occurrence of sep, left to right
RECURSIVE Split(_, _)
Split(s, sep) ==
    LET hits == {i \in 1..Len(s) : StartsAt(s, sep, i)} IN
    IF hits = {} THEN <<s>>
    ELSE LET i == CHOOSE h \in hits : \A g \in hits : h <= g
         IN <<SubSeq(s, 1, i - 1)>> \o Split(SubSeq(s, i + Len(sep), Len(s)), sep)

\* SplitOnce cutting at the last occurrence of sep, as str.rsplit(sep, 1)
SplitOnceLast(s, sep) ==
    LET hits == {i \in 1..Len(s) : StartsAt(s, sep, i)} IN
    IF hits = {} THEN <<s>>
    ELSE LET i == CHOOSE h \in hits : \A g \in hits : g <= h
         IN <<SubSeq(s, 1, i - 1), SubSeq(s, i + Len(sep), Len(s))>>

\* str.split(sep, 1): cut once, at the first occurrence of sep
SplitOnce(s, sep) ==
    LET hits == {i \in 1..Len(s) : StartsAt(s, sep, i)} IN
    IF hits = {} THEN <<s>>
    ELSE LET i == CHOOSE h \in hits : \A g \in hits : h <= g
         IN <<SubSeq(s, 1, i - 1), SubSeq(s, i + Len(sep), Len(s))>>

\* s.ljust(w), s.rjust(w), s.center(w) with the space as fill character
Spaces(n) == [i \in 1..n |-> " "]
Ljust(s, w) == s \o Spaces(Max(0, w - Len(s)))
Rjust(s, w) == Spaces(Max(0, w - Len(s))) \o s
Center(s, w) ==
    IF w <= Len(s) THEN s
    ELSE LET marg == w - Len(s)
             left == (marg \div 2) + (IF marg % 2 = 1 /\ w % 2 = 1 THEN 1 ELSE 0)
         IN Spaces(left) \o s \o Spaces(marg - left)

(***************************************************************************)
(* Movie.                                                                  *)
(***************************************************************************)
\* the dataclass Movie: title and year, then the four optional fields
NewMovie(title, year, extension) ==
    [title |-> title, year |-> year, extension |-> extension,
     edition |-> None, imdb |-> None, tmdb |-> None]

\* " (dddd)" of the regular expression sits at index i of s
YearGroupAt(s, i) ==
    /\ i + 6 <= Len(s)
    /\ s[i] = " "
    /\ s[i + 1] = "("
    /\ \A j \in (i + 2)..(i + 5) : s[j] \in Digits
    /\ s[i + 6] = ")"

\* ReMatch with a lazy title, (.+?): the leftmost place is taken
ReMatchLazy(s) ==
    LET places == {i \in 2..Len(s) : YearGroupAt(s, i)} IN
    IF places = {} THEN None
    ELSE LET i == CHOOSE p \in places : \A q \in places : p <= q
         IN Some(<<SubSeq(s, 1, i - 1),
                   SubSeq(s, i + 2, i + 5),
                   SubSeq(s, i + 7, Len(s))>>)

\* re.match(r"(.+) \((\d{4})\)(.*)", s): (.+) is greedy, so of the places
\* where the year group can sit after a non-empty title the match takes the
\* rightmost; the result is None or Some of the three groups
ReMatch(s) ==
    LET places == {i \in 2..Len(s) : YearGroupAt(s, i)} IN
    IF places = {} THEN None
    ELSE LET i == CHOOSE p \in places : \A q \in places : q <= p
         IN Some(<<SubSeq(s, 1, i - 1),
                   SubSeq(s, i + 2, i + 5),
                   SubSeq(s, i + 7, Len(s))>>)

\* metadata[2:-1]
SliceMetadata(metadata) == SubSeq(metadata, 3, Len(metadata) - 1)

Raised(kind) == [ok |-> FALSE, error |-> kind]
Returned(v) == [ok |-> TRUE, value |-> v]

\* SetField without its last branch: a key it does not know is passed over
SetFieldLenient(movie, item) ==
    LET kv == SplitOnce(item, <<"-">>) IN
    IF Len(kv) < 2 THEN Raised("ValueError")
    ELSE IF kv[1] = Chars("imdb") THEN Returned([movie EXCEPT !.imdb = Some(kv[2])])
    ELSE IF kv[1] = Chars("tmdb") THEN Returned([movie EXCEPT !.tmdb = Some(kv[2])])
    ELSE IF kv[1] = Chars("edition") THEN Returned([movie EXCEPT !.edition = Some(kv[2])])
    ELSE Returned(movie)

\* one turn of the loop over the items: key, value = item.split("-", 1) and
\* the chain of comparisons of key; an item without "-" fails to unpack,
\* which is a ValueError too
SetField(movie, item) ==
    LET kv == SplitOnce(item, <<"-">>) IN
    IF Len(kv) < 2 THEN Raised("ValueError")
    ELSE IF kv[1] = Chars("imdb") THEN Returned([movie EXCEPT !.imdb = Some(kv[2])])
    ELSE IF kv[1] = Chars("tmdb") THEN Returned([movie EXCEPT !.tmdb = Some(kv[2])])
    ELSE IF kv[1] = Chars("edition") THEN Returned([movie EXCEPT !.edition = Some(kv[2])])
    ELSE Raised("ValueError")

\* for item in metadata: the loop stops at the first item that raises
RECURSIVE SetFields(_, _)
SetFields(movie, items) ==
    IF items = <<>> THEN Returned(movie)
    ELSE LET r == SetField(movie, Head(items)) IN
         IF r.ok THEN SetFields(r.value, Tail(items)) ELSE r

\* Movie.parse from the unpacking of the match's groups to the return
Populate(groups, extension) ==
    LET title == groups[1]
        year == groups[2]
        metadata == groups[3]
        movie == NewMovie(title, ParseInt(year), extension)
    IN IF metadata = <<>> THEN Returned(movie)
       ELSE SetFields(movie, Split(SliceMetadata(metadata), Chars("} {")))

\* Movie.parse(name, extension)
Parse(s, extension) ==
    LET match == ReMatch(s) IN
    IF IsNone(match) THEN Raised("ValueError") ELSE Populate(Val(match), extension)

\* Movie.parse_directory(dirname)
ParseDirectory(dirname) == Parse(dirname, None)

\* os.path.splitext: the extension starts at the last dot, unless only dots
\* precede that dot
Splitext(filename) ==
    LET dots == {i \in 1..Len(filename) : filename[i] = "."} IN
    IF dots = {} THEN <<filename, <<>>>>
    ELSE LET d == CHOOSE p \in dots : \A q \in dots : q <= p IN
         IF \E j \in 1..(d - 1) : filename[j] # "."
         THEN <<SubSeq(filename, 1, d - 1), SubSeq(filename, d, Len(filename))>>
         ELSE <<filename, <<>>>>

\* Movie.parse_file(filename)
ParseFile(filename) ==
    LET parts == Splitext(filename) IN Parse(parts[1], Some(parts[2]))

\* Movie.full_title
FullTitle(movie) ==
    IF IsNone(movie.edition) THEN movie.title
    ELSE movie.title \o Chars(" [") \o Val(movie.edition) \o Chars("]")

(***************************************************************************)
(* The names handed to Movie.parse.  A name is a title, a year group and   *)
(* up to MaxPairs metadata pairs; each part is drawn from the well formed  *)
(* and from the malformed, so that every branch of parse is entered.       *)
(***************************************************************************)
Titles == {Chars("A"), Chars("A (1999)"), <<>>}

\* the text of the year group and, where it has the form " (dddd)", the
\* number dddd denotes
YearGroups ==
    {[text |-> Chars(" (1999)"), wf |-> TRUE, year |-> 1999],
     [text |-> Chars(" (0042)"), wf |-> TRUE, year |-> 42],
     [text |-> Chars("(1999)"), wf |-> FALSE, year |-> 0],
     [text |-> Chars(" (199)"), wf |-> FALSE, year |-> 0]}

RecognizedKeys == {Chars("imdb"), Chars("tmdb"), Chars("edition")}

Pair(lead, open, key, dash, value, close) ==
    [lead |-> Chars(lead), open |-> Chars(open), key |-> Chars(key),
     dash |-> Chars(dash), value |-> Chars(value), close |-> Chars(close)]

\* " {key-value}"
BracedPairs ==
    {Pair(" ", "{", k, "-", v, "}") :
        k \in {"imdb", "tmdb", "edition", "foo"}, v \in {"7", "a-b", "x (2005)"}}
    \cup {Pair(" ", "{", "tmdb", "-", "", "}")}

\* a pair that misses its leading space, a brace or its hyphen, or carries
\* another character in a brace's place
BrokenPairs ==
    {Pair("", "{", "imdb", "-", "7", "}"),
     Pair("", "{", "ximdb", "-", "7", "}"),
     Pair(" ", "x", "imdb", "-", "7", "}"),
     Pair(" ", "", "imdb", "-", "7", "}"),
     Pair(" ", "{", "imdb", "-", "7", "y"),
     Pair(" ", "{", "imdb", "-", "7", ""),
     Pair(" ", "{", "imdb", "", "7", "}")}

Pairs == BracedPairs \cup BrokenPairs

PairText(p) == p.lead \o p.open \o p.key \o p.dash \o p.value \o p.close

RECURSIVE PairsText(_)
PairsText(ps) == IF ps = <<>> THEN <<>> ELSE PairText(Head(ps)) \o PairsText(Tail(ps))

Forms ==
    [title : Titles, group : YearGroups,
     pairs : UNION {[1..n -> Pairs] : n \in 0..MaxPairs}]

FormName(f) == f.title \o f.group.text \o PairsText(f.pairs)

\* the extensions of the file names handed to parse_file
Extensions == {Chars(".mkv"), <<>>}

(***************************************************************************)
(* Values of the variables an operation does not use.                      *)
(***************************************************************************)
NoForm == [title |-> <<>>, group |-> [text |-> <<>>, wf |-> FALSE, year |-> 0],
           pairs |-> <<>>]
NoOp == [name |-> "none", key |-> <<>>]

ParseIdle ==
    /\ form = NoForm
    /\ name = <<>>
    /\ ret = [call |-> "none"]

CollectionIdle ==
    /\ collection = <<>>
    /\ added = EmptyBag
    /\ op = NoOp
    /\ err = "none"
    /\ rendered = None

PathIdle ==
    /\ dirs = <<>>
    /\ files = <<>>
    /\ idx = 0
    /\ c = <<>>
    /\ seen = <<>>
    /\ out = [call |-> "none"]

parseVars == <<form, name, ret>>
collectionVars == <<collection, added, op, err, rendered>>
pathVars == <<dirs, files, idx, c, seen, out>>

(***************************************************************************)
(* SpecParse: one call of Movie.parse_directory or Movie.parse_file on a   *)
(* name.                                                                   *)
(***************************************************************************)
InitParse ==
    /\ pc = "ready"
    /\ form \in Forms
    /\ name = FormName(form)
    /\ ret = [call |-> "none"]
    /\ CollectionIdle
    /\ PathIdle

\* Movie.parse_directory(name)
CallParseDirectory ==
    /\ pc = "ready"
    /\ pc' = "done"
    /\ ret' = [call |-> "parse_directory", arg |-> name, extension |-> None,
               result |-> ParseDirectory(name)]
    /\ UNCHANGED <<form, name, collectionVars, pathVars>>

\* Movie.parse_file(name + extension)
CallParseFile ==
    /\ pc = "ready"
    /\ \E e \in Extensions :
          ret' = [call |-> "parse_file", arg |-> name \o e, extension |-> Some(e),
                  result |-> ParseFile(name \o e)]
    /\ pc' = "done"
    /\ UNCHANGED <<form, name, collectionVars, pathVars>>

NextParse == CallParseDirectory \/ CallParseFile

SpecParse == InitParse /\ [][NextParse]_vars

(***************************************************************************)
(* Collection: add_movie, sort and the table.                              *)
(***************************************************************************)
\* the printable ASCII characters in code point order, from 32 on
Ascii ==
    Chars(" !\"#$%&'()*+,-./0123456789:;<=>?@ABCDEFGHIJKLMNOPQRSTUVWXYZ[\\]^_")
    \o <<"U+0060">> \o Chars("abcdefghijklmnopqrstuvwxyz{|}~")

\* ord(ch)
Ord(ch) == 31 + (CHOOSE i \in 1..Len(Ascii) : Ascii[i] = ch)

\* str.lower()
LowerChar(ch) == IF Ord(ch) \in 65..90 THEN Ascii[Ord(ch) + 32 - 31] ELSE ch
Lower(s) == [i \in 1..Len(s) |-> LowerChar(s[i])]

\* a < b of two str: by code point, a proper prefix first
RECURSIVE StrLess(_, _)
StrLess(a, b) ==
    IF b = <<>> THEN FALSE
    ELSE IF a = <<>> THEN TRUE
    ELSE IF Head(a) # Head(b) THEN Ord(Head(a)) < Ord(Head(b))
    ELSE StrLess(Tail(a), Tail(b))

\* getattr(movie, attr) as an Optional
GetAttr(movie, attr) ==
    CASE attr = Chars("title") -> Some(movie.title)
      [] attr = Chars("full_title") -> Some(FullTitle(movie))
      [] attr = Chars("imdb") -> movie.imdb
      [] attr = Chars("tmdb") -> movie.tmdb

\* SortKey without the second test: imdb and tmdb are kept as sorting keys
SortKeyNoFallback(key) ==
    LET lowered == Lower(key) IN
    IF lowered \notin {Chars("title"), Chars("year"), Chars("imdb"), Chars("tmdb")}
    THEN Chars("title") ELSE lowered

\* Collection.sort: the key the list is sorted by, after key.lower() and the
\* two replacements by "title"
SortKey(key) ==
    LET lowered == Lower(key)
        known == IF lowered \notin {Chars("title"), Chars("year"), Chars("imdb"), Chars("tmdb")}
                 THEN Chars("title") ELSE lowered
    IN IF known \in {Chars("imdb"), Chars("tmdb")} THEN Chars("title") ELSE known

\* getattr(a, key) < getattr(b, key) for values that can be compared
KeyLess(key, a, b) ==
    IF key = Chars("year") THEN a.year < b.year
    ELSE StrLess(Val(GetAttr(a, key)), Val(GetAttr(b, key)))

\* list.sort compares every element of a list of two or more with another:
\* a None among the keys raises TypeError
SortRaises(coll, key) ==
    /\ Len(coll) >= 2
    /\ key # Chars("year")
    /\ \E i \in 1..Len(coll) : IsNone(GetAttr(coll[i], key))

\* InsertSorted putting the element before the elements equal to it
RECURSIVE InsertBeforeEqual(_, _, _)
InsertBeforeEqual(sorted, m, key) ==
    IF sorted = <<>> THEN <<m>>
    ELSE IF ~KeyLess(key, Head(sorted), m) THEN <<m>> \o sorted
    ELSE <<Head(sorted)>> \o InsertBeforeEqual(Tail(sorted), m, key)

\* m put into a sorted list after every element not greater than it
RECURSIVE InsertSorted(_, _, _)
InsertSorted(sorted, m, key) ==
    IF sorted = <<>> THEN <<m>>
    ELSE IF KeyLess(key, m, Head(sorted)) THEN <<m>> \o sorted
    ELSE <<Head(sorted)>> \o InsertSorted(Tail(sorted), m, key)

\* SortedBy keeping one of the elements that are equal as records
RECURSIVE SortedDistinct(_, _)
SortedDistinct(coll, key) ==
    IF coll = <<>> THEN <<>>
    ELSE LET front == SubSeq(coll, 1, Len(coll) - 1)
             m == coll[Len(coll)]
         IN IF \E i \in 1..Len(front) : front[i] = m
            THEN SortedDistinct(front, key)
            ELSE InsertSorted(SortedDistinct(front, key), m, key)

\* list.sort(key=...): ascending and stable
RECURSIVE SortedBy(_, _)
SortedBy(coll, key) ==
    IF coll = <<>> THEN <<>>
    ELSE InsertSorted(SortedBy(SubSeq(coll, 1, Len(coll) - 1), key), coll[Len(coll)], key)

\* bcolors: a styling sequence is kept whole, as one element of the string
\* it is put in
OKBLUE == "\\033[94m"
OKGREEN == "\\033[92m"
ENDC == "\\033[0m"
BOLD == "\\033[1m"
Escapes == {OKBLUE, OKGREEN, ENDC, BOLD}

\* the box drawing characters of the table, each one element of the string
\* and written as its code point
BoxH == "U+2500"
BoxV == "U+2502"
BoxDownRight == "U+256D"
BoxDownLeft == "U+256E"
BoxUpRight == "U+2570"
BoxUpLeft == "U+256F"
BoxDownHoriz == "U+252C"
BoxUpHoriz == "U+2534"
BoxVertRight == "U+251C"
BoxVertLeft == "U+2524"
BoxCross == "U+253C"

Repeat(ch, n) == [i \in 1..n |-> ch]

\* Collection._get_width(attr)
GetWidth(coll, attr) ==
    LET RECURSIVE Widen(_, _)
        Widen(width, i) ==
            IF i > Len(coll) THEN width
            ELSE IF ~IsNone(GetAttr(coll[i], attr))
                 THEN Widen(Max(width, Len(Val(GetAttr(coll[i], attr)))), i + 1)
                 ELSE Widen(width, i + 1)
    IN Widen(Len(attr), 1)

\* Collection._strong(string)
Strong(string) == <<BOLD, OKGREEN>> \o string \o <<ENDC>>

\* a border line of _table: left corner, the three junctions, right corner
Border(left, mid, right, title_line, imdb_line, tmdb_line) ==
    <<left>> \o Repeat(BoxH, 6) \o <<mid, BoxH>> \o title_line \o <<BoxH, mid>>
    \o Repeat(BoxH, 6) \o <<mid, BoxH>> \o imdb_line \o <<BoxH, mid, BoxH>>
    \o tmdb_line \o <<BoxH, right>>

\* a content line of _table
Line(a, b, cc, d, e) ==
    <<BoxV, " ">> \o a \o <<" ", BoxV, " ">> \o b \o <<" ", BoxV, " ">> \o cc
    \o <<" ", BoxV, " ">> \o d \o <<" ", BoxV, " ">> \o e \o <<" ", BoxV, "\n">>

\* x or " -" of an Optional str: None and the empty string give " -"
OrDash(o) == IF IsNone(o) \/ o = Some(<<>>) THEN Chars(" -") ELSE Val(o)

\* the line _table adds for the movie at index i (from 0)
Row(movie, i, title_width, imdb_width, tmdb_width) ==
    LET index == Strong(Rjust(Str(i + 1), 4))
        padded == Ljust(FullTitle(movie), title_width)
        title == IF ~IsNone(movie.extension)
                 THEN <<OKBLUE>> \o padded \o <<ENDC>> ELSE padded
        year == Str(movie.year)
        imdb == Ljust(OrDash(movie.imdb), imdb_width)
        tmdb == Ljust(OrDash(movie.tmdb), tmdb_width)
    IN Line(index, title, year, imdb, tmdb)

\* Collection._table()
Table(coll) ==
    LET title_width == GetWidth(coll, Chars("full_title"))
        imdb_width == GetWidth(coll, Chars("imdb"))
        tmdb_width == GetWidth(coll, Chars("tmdb"))
        title_line == Repeat(BoxH, title_width)
        imdb_line == Repeat(BoxH, imdb_width)
        tmdb_line == Repeat(BoxH, tmdb_width)
        index_head == Strong(Chars("   #"))
        title_head == Strong(Ljust(Chars("Title"), title_width))
        year_head == Strong(Chars("Year"))
        imdb_head == Strong(Center(Chars("IMDb"), imdb_width))
        tmdb_head == Strong(Center(Chars("TMDB"), tmdb_width))
        RECURSIVE Rows(_)
        Rows(i) ==
            IF i > Len(coll) THEN <<>>
            ELSE Row(coll[i], i - 1, title_width, imdb_width, tmdb_width) \o Rows(i + 1)
    IN Border(BoxDownRight, BoxDownHoriz, BoxDownLeft, title_line, imdb_line, tmdb_line)
       \o <<"\n">>
       \o Line(index_head, title_head, year_head, imdb_head, tmdb_head)
       \o Border(BoxVertRight, BoxCross, BoxVertLeft, title_line, imdb_line, tmdb_line)
       \o <<"\n">>
       \o Rows(1)
       \o Border(BoxUpRight, BoxUpHoriz, BoxUpLeft, title_line, imdb_line, tmdb_line)

\* Collection.add_movie(movie) on the list coll
AddTo(coll, movie) == Append(coll, movie)

\* the records add_movie is handed: what parse_directory and parse_file
\* return for these entries
SampleDirs ==
    {Chars("A (2000) {edition-Cut}"), Chars("Blade Runner (0042) {tmdb-12345}")}
SampleFiles == {Chars("A (1999) {imdb-tt007}.mkv"), Chars("b (1999)")}
SampleMovies ==
    {ParseDirectory(d).value : d \in SampleDirs} \cup {ParseFile(f).value : f \in SampleFiles}

\* the keys sort is called with
SortKeys ==
    {Chars("title"), Chars("Title"), Chars("year"), Chars("YEAR"),
     Chars("imdb"), Chars("TMDB"), Chars("rating"), <<>>}

BagOfSeq(q) ==
    LET range == {q[i] : i \in 1..Len(q)}
    IN [m \in range |-> Cardinality({i \in 1..Len(q) : q[i] = m})]

(***************************************************************************)
(* SpecCollection: any sequence of add_movie, sort and __str__ on one      *)
(* Collection.                                                             *)
(***************************************************************************)
InitCollection ==
    /\ pc = "collection"
    /\ ParseIdle
    /\ CollectionIdle
    /\ PathIdle

\* Collection.add_movie(movie)
AddMovie ==
    /\ pc = "collection"
    /\ Len(collection) < MaxMovies
    /\ \E movie \in SampleMovies :
          /\ collection' = AddTo(collection, movie)
          /\ added' = added (+) SetToBag({movie})
    /\ op' = [name |-> "add_movie", key |-> <<>>]
    /\ err' = "none"
    /\ UNCHANGED <<pc, rendered, parseVars, pathVars>>

\* Collection.sort(key); a list.sort that raises leaves the elements in the
\* list, in an order that is not specified
Sort ==
    /\ pc = "collection"
    /\ \E key \in SortKeys :
          /\ op' = [name |-> "sort", key |-> key]
          /\ IF SortRaises(collection, SortKey(key))
             THEN /\ err' = "TypeError"
                  /\ \E p \in Permutations(1..Len(collection)) :
                        collection' = [i \in 1..Len(collection) |-> collection[p[i]]]
             ELSE /\ err' = "none"
                  /\ collection' = SortedBy(collection, SortKey(key))
    /\ UNCHANGED <<pc, added, rendered, parseVars, pathVars>>

\* Collection.__str__()
Render ==
    /\ pc = "collection"
    /\ rendered' = Some(Table(collection))
    /\ op' = [name |-> "render", key |-> <<>>]
    /\ err' = "none"
    /\ UNCHANGED <<pc, collection, added, parseVars, pathVars>>

NextCollection == AddMovie \/ Sort \/ Render

SpecCollection == InitCollection /\ [][NextCollection]_vars

(***************************************************************************)
(* SpecPath: one call of Collection.parse_path.  os.walk hands over the    *)
(* directory names and the file names of the path, each list in the order  *)
(* of the traversal.                                                       *)
(***************************************************************************)
IGNORED_FILES == {Chars(".DS_Store")}

DirNames ==
    {Chars("B (2000)"), Chars("A (1999) {imdb-7}"), Chars("NoYear"),
     Chars("X (2000) {foo-1}")}
FileNames ==
    {Chars(".DS_Store"), Chars("A (1999).mkv"), Chars("notes.txt"),
     Chars("Mr. X (1999)")}

Listings(names) == UNION {[1..n -> names] : n \in 0..MaxEntries}

\* Visit with the failure caught and the entry passed over
VisitSkipping(coll, r) ==
    IF r.ok THEN [raised |-> FALSE, c |-> AddTo(coll, r.value)]
    ELSE [raised |-> FALSE, c |-> coll]

\* movie = Movie.parse_...(entry); c.add_movie(movie): an exception of the
\* parse leaves the loop and parse_path
Visit(coll, r) ==
    IF r.ok THEN [raised |-> FALSE, c |-> AddTo(coll, r.value)]
    ELSE [raised |-> TRUE, c |-> coll, error |-> r.error]

InitPath ==
    /\ pc = "dirs"
    /\ dirs \in Listings(DirNames)
    /\ files \in Listings(FileNames)
    /\ idx = 1
    /\ c = <<>>
    /\ seen = <<>>
    /\ out = [call |-> "none"]
    /\ ParseIdle
    /\ CollectionIdle

\* one turn of for dirname in dirs
DirStep ==
    /\ pc = "dirs"
    /\ idx <= Len(dirs)
    /\ LET v == Visit(c, ParseDirectory(dirs[idx])) IN
          /\ seen' = Append(seen, [kind |-> "dir", name |-> dirs[idx]])
          /\ c' = v.c
          /\ IF v.raised
             THEN /\ pc' = "raised"
                  /\ out' = [call |-> "parse_path", result |-> Raised(v.error)]
                  /\ idx' = idx
             ELSE /\ pc' = "dirs"
                  /\ out' = out
                  /\ idx' = idx + 1
    /\ UNCHANGED <<dirs, files, parseVars, collectionVars>>

\* the first loop is through: for filename in files begins
DirsDone ==
    /\ pc = "dirs"
    /\ idx > Len(dirs)
    /\ pc' = "files"
    /\ idx' = 1
    /\ UNCHANGED <<dirs, files, c, seen, out, parseVars, collectionVars>>

\* one turn of for filename in files
FileStep ==
    /\ pc = "files"
    /\ idx <= Len(files)
    /\ IF files[idx] \in IGNORED_FILES
       THEN /\ idx' = idx + 1
            /\ UNCHANGED <<pc, c, seen, out>>
       ELSE LET v == Visit(c, ParseFile(files[idx])) IN
            /\ seen' = Append(seen, [kind |-> "file", name |-> files[idx]])
            /\ c' = v.c
            /\ IF v.raised
               THEN /\ pc' = "raised"
                    /\ out' = [call |-> "parse_path", result |-> Raised(v.error)]
                    /\ idx' = idx
               ELSE /\ pc' = "files"
                    /\ out' = out
                    /\ idx' = idx + 1
    /\ UNCHANGED <<dirs, files, parseVars, collectionVars>>

\* return c
ReturnCollection ==
    /\ pc = "files"
    /\ idx > Len(files)
    /\ pc' = "returned"
    /\ out' = [call |-> "parse_path", result |-> Returned(c)]
    /\ UNCHANGED <<dirs, files, idx, c, seen, parseVars, collectionVars>>

NextPath == DirStep \/ DirsDone \/ FileStep \/ ReturnCollection

SpecPath == InitPath /\ [][NextPath]_vars

(***************************************************************************)
(* Properties of Movie.parse, under SpecParse.                             *)
(***************************************************************************)
Parsed == ret.call # "none"

\* " {key-value}": one leading space, both braces, the hyphen, and neither
\* key nor value holding a brace
IsBracedPair(p) ==
    /\ p.lead = <<" ">>
    /\ p.open = <<"{">>
    /\ p.dash = <<"-">>
    /\ p.close = <<"}">>
    /\ \A i \in 1..Len(p.key) : p.key[i] \notin {"{", "}", "-"}
    /\ \A i \in 1..Len(p.value) : p.value[i] \notin {"{", "}"}

NoParens(t) == \A i \in 1..Len(t) : t[i] \notin {"(", ")"}

\* the name is <T> (<YYYY>) followed by pairs " {key-value}" whose keys are
\* recognized and all different and whose values hold no parenthesis
IsTaggedName(f) ==
    /\ f.title # <<>>
    /\ f.group.wf
    /\ \A i \in 1..Len(f.pairs) :
          /\ IsBracedPair(f.pairs[i])
          /\ f.pairs[i].key \in RecognizedKeys
          /\ NoParens(f.pairs[i].value)
    /\ \A i, j \in 1..Len(f.pairs) : f.pairs[i].key = f.pairs[j].key => i = j

\* the value the name gives for a key: the text after the first hyphen of
\* the key's pair; None when no pair has the key
Tagged(f, key) ==
    IF \E i \in 1..Len(f.pairs) : f.pairs[i].key = Chars(key)
    THEN Some(f.pairs[CHOOSE i \in 1..Len(f.pairs) : f.pairs[i].key = Chars(key)].value)
    ELSE None

\* C1: a name <T> (<YYYY>) followed by zero or more " {key-value}" pairs with
\* recognized keys, each at most once, and values free of braces and
\* parentheses parses to a record with title T, year the number YYYY, each
\* tagged field equal to the text after its pair's first hyphen and every
\* other metadata field absent.
C1_ParseTaggedName ==
    (Parsed /\ IsTaggedName(form)) =>
        /\ ret.result.ok
        /\ ret.result.value.title = form.title
        /\ ret.result.value.year = form.group.year
        /\ ret.result.value.imdb = Tagged(form, "imdb")
        /\ ret.result.value.tmdb = Tagged(form, "tmdb")
        /\ ret.result.value.edition = Tagged(form, "edition")

C1_Witness ==
    /\ Parsed
    /\ IsTaggedName(form)
    /\ Len(form.pairs) = 2
    /\ form.group.year = 42
    /\ \E i \in 1..2 : form.pairs[i].value = Chars("a-b")
    /\ ret.result.ok
    /\ ret.result.value.edition = None

\* s holds " (dddd)" somewhere after its first character
HasYearGroup(s) ==
    \E i \in 2..(Len(s) - 6) :
        /\ SubSeq(s, i, i + 1) = Chars(" (")
        /\ \A j \in 2..5 : s[i + j] \in Digits
        /\ s[i + 6] = ")"

\* every pair is " {key-value}" and some key is not a recognized one
HasUnknownKey(f) ==
    /\ \A i \in 1..Len(f.pairs) : IsBracedPair(f.pairs[i])
    /\ \E i \in 1..Len(f.pairs) : f.pairs[i].key \notin RecognizedKeys

GroupPlaces(s) ==
    {i \in 2..(Len(s) - 6) :
        /\ SubSeq(s, i, i + 1) = Chars(" (")
        /\ \A j \in 2..5 : s[i + j] \in Digits
        /\ s[i + 6] = ")"}

\* title, year and remainder when the year group is the one at place i
GroupsAt(s, i) ==
    <<SubSeq(s, 1, i - 1), SubSeq(s, i + 2, i + 5), SubSeq(s, i + 7, Len(s))>>

FirstPlace(s) == CHOOSE i \in GroupPlaces(s) : \A j \in GroupPlaces(s) : i <= j
LastPlace(s) == CHOOSE i \in GroupPlaces(s) : \A j \in GroupPlaces(s) : j <= i

\* C8 as stated: of several " (dddd)" groups Movie.parse takes the first; the
\* title is what precedes it, the year is its digits and the metadata is all
\* that follows its closing parenthesis.
C8_FirstGroup ==
    (Parsed /\ Cardinality(GroupPlaces(name)) > 1) =>
        ret.result = Populate(GroupsAt(name, FirstPlace(name)), ret.extension)

\* C8 as amended: of several " (dddd)" groups Movie.parse takes the last; the
\* title is what precedes it, earlier groups included, the year is its digits
\* and the metadata is all that follows its closing parenthesis.
C8_LastGroup ==
    (Parsed /\ Cardinality(GroupPlaces(name)) > 1) =>
        /\ ret.result = Populate(GroupsAt(name, LastPlace(name)), ret.extension)
        /\ ret.result.ok =>
              /\ ret.result.value.title = SubSeq(name, 1, LastPlace(name) - 1)
              /\ ret.result.value.year = ParseInt(SubSeq(name, LastPlace(name) + 2,
                                                         LastPlace(name) + 5))

C8_Witness ==
    /\ Parsed
    /\ Cardinality(GroupPlaces(name)) > 1
    /\ form.title = Chars("A (1999)")
    /\ ret.result.ok
    /\ ret.result.value.title = Chars("A (1999)")
    /\ ret.result.value.year = 42
    /\ ret.result.value.imdb = Some(Chars("7"))

\* the text after the year group is not empty and some pair of it has
\* another text than "{" or "}" where its brace belongs
HasBrokenBrace(f) ==
    /\ f.title = Chars("A")
    /\ f.group.wf
    /\ f.pairs # <<>>
    /\ \A i \in 1..Len(f.pairs) : NoParens(f.pairs[i].value)
    /\ \E i \in 1..Len(f.pairs) : f.pairs[i].open # <<"{">> \/ f.pairs[i].close # <<"}">>

\* C9: Movie.parse fails for every name whose text after the year group is
\* not empty and is not a sequence of brace-delimited key-value pairs: no
\* such name yields a record.
C9_RejectsBrokenBraces ==
    (Parsed /\ HasBrokenBrace(form)) => ~ret.result.ok

(***************************************************************************)
(* Properties of Collection, under SpecCollection.                         *)
(***************************************************************************)
MaxOf(S) == CHOOSE x \in S : \A y \in S : y <= x

\* the lines of the rendered table
Lines(text) == Split(text, <<"\n">>)

\* the width of a line as a terminal shows it: the styling sequences take
\* no room
IsVisible(ch) == ch \notin Escapes
VisibleWidth(line) == Len(SelectSeq(line, IsVisible))

\* the widths of the title, imdb and tmdb columns, read off the top border:
\* each column is its line and one box character on either side
TopColumns(text) == Split(Lines(text)[1], <<BoxDownHoriz>>)
TitleColumn(text) == Len(TopColumns(text)[2]) - 2
ImdbColumn(text) == Len(TopColumns(text)[4]) - 2
TmdbColumn(text) == Len(TopColumns(text)[5]) - 3

LongestFullTitle(coll) ==
    MaxOf({Len(FullTitle(coll[i])) : i \in 1..Len(coll)} \cup {0})
LongestImdb(coll) ==
    MaxOf({Len(Val(coll[i].imdb)) : i \in {j \in 1..Len(coll) : coll[j].imdb # None}} \cup {0})
LongestTmdb(coll) ==
    MaxOf({Len(Val(coll[i].tmdb)) : i \in {j \in 1..Len(coll) : coll[j].tmdb # None}} \cup {0})

\* C3: the title column is as wide as the longer of "Title" and the longest
\* full_title, the imdb column as the longer of "IMDb" and the longest imdb,
\* the tmdb column as the longer of "TMDB" and the longest tmdb; the table of
\* an empty collection has its four frame lines and no other, each column as
\* wide as its label.
C3_ColumnWidths ==
    op.name = "render" =>
        /\ TitleColumn(Val(rendered)) =
              Max(Len(Chars("Title")), LongestFullTitle(collection))
        /\ ImdbColumn(Val(rendered)) = Max(Len(Chars("IMDb")), LongestImdb(collection))
        /\ TmdbColumn(Val(rendered)) = Max(Len(Chars("TMDB")), LongestTmdb(collection))
        /\ collection = <<>> => Len(Lines(Val(rendered))) = 4

FallbackKeys == {Chars("imdb"), Chars("TMDB"), Chars("rating"), <<>>}

\* C4: sort with the key imdb or tmdb in any letter case, or with a key that
\* is none of title, year, imdb, tmdb, does not fail and leaves the
\* collection in the order sort("title") gives from the same collection.
C4_FallbackSortsByTitle ==
    [][(op'.name = "sort" /\ op'.key \in FallbackKeys) =>
          /\ err' = "none"
          /\ collection' = SortedBy(collection, SortKey(Chars("title")))]_vars

C4_Witness ==
    /\ op = [name |-> "sort", key |-> Chars("imdb")]
    /\ err = "none"
    /\ Len(collection) = 2
    /\ collection[1].imdb # None
    /\ collection[2].imdb = None
    /\ StrLess(collection[1].title, collection[2].title)

TitleLess(a, b) == StrLess(a.title, b.title)
YearLess(a, b) == a.year < b.year

\* after is before in ascending order of Less, elements that are equal under
\* Less in the order they had in before
AscendingStable(before, after, Less(_, _)) ==
    /\ Len(after) = Len(before)
    /\ \A i \in 1..(Len(after) - 1) : ~Less(after[i + 1], after[i])
    /\ \E p \in Permutations(1..Len(before)) :
          /\ \A i \in 1..Len(after) : after[i] = before[p[i]]
          /\ \A i, j \in 1..Len(after) :
                (i < j /\ ~Less(after[i], after[j])) => p[i] < p[j]

\* C5: sort with the key title or year in any letter case leaves the
\* collection in ascending order of that field, titles by code point and
\* years by number, records with equal values in the order they had.
C5_SortAscendingStable ==
    [][/\ (op'.name = "sort" /\ op'.key \in {Chars("title"), Chars("Title")}) =>
             (err' = "none" /\ AscendingStable(collection, collection', TitleLess))
       /\ (op'.name = "sort" /\ op'.key \in {Chars("year"), Chars("YEAR")}) =>
             (err' = "none" /\ AscendingStable(collection, collection', YearLess))]_vars

C5_Witness ==
    /\ op = [name |-> "sort", key |-> Chars("YEAR")]
    /\ Len(collection) >= 3
    /\ collection[1].year < collection[2].year
    /\ collection[2].year = collection[3].year
    /\ StrLess(collection[3].title, collection[2].title)

\* C7: after any sequence of add_movie, sort and render the collection holds
\* exactly the records that were added, each as often as it was added and
\* unaltered; render leaves the records and their order alone, and a render
\* that follows a render returns the same string.
C7_RecordsKept ==
    /\ [](BagOfSeq(collection) = added)
    /\ [][op'.name = "render" =>
             /\ collection' = collection
             /\ op.name = "render" => rendered' = rendered]_vars

C7_Witness ==
    /\ op.name = "render"
    /\ Len(collection) >= 3
    /\ collection[1] = collection[2]
    /\ collection[2] # collection[3]
    /\ collection[3].year < collection[1].year
    /\ rendered = Some(Table(collection))

\* C10: every line of the rendered table has the same visible width: the
\* cells of a data row are as wide as their columns.
C10_LinesAligned ==
    op.name = "render" =>
        \A i, j \in 1..Len(Lines(Val(rendered))) :
            VisibleWidth(Lines(Val(rendered))[i]) = VisibleWidth(Lines(Val(rendered))[j])

(***************************************************************************)
(* Properties of Collection.parse_path, under SpecPath.                    *)
(***************************************************************************)
\* the entries parse_path is to parse: the directories, then the files that
\* are not on the ignore list, each list in its traversal order
Kept(names) == SelectSeq(names, LAMBDA f : f \notin IGNORED_FILES)
Entries ==
    [i \in 1..Len(dirs) |-> [kind |-> "dir", name |-> dirs[i]]]
    \o [i \in 1..Len(Kept(files)) |-> [kind |-> "file", name |-> Kept(files)[i]]]

ParseEntry(e) == IF e.kind = "dir" THEN ParseDirectory(e.name) ELSE ParseFile(e.name)

\* the entries whose parse fails
Failing == {i \in 1..Len(Entries) : ~ParseEntry(Entries[i]).ok}

\* C6: parse_path parses the directory names and then the file names that
\* are not ignored, in traversal order; at the first entry whose parse fails
\* it stops with that error, with no later entry parsed or added and no
\* collection returned; if none fails it returns one record per entry that
\* is not ignored, in that order.
C6_AbortOnFirstFailure ==
    /\ Len(seen) <= Len(Entries)
    /\ \A i \in 1..Len(seen) : seen[i] = Entries[i]
    /\ \A i \in Failing : Len(seen) <= i
    /\ (Len(seen) \in Failing) =>
          /\ pc = "raised"
          /\ out = [call |-> "parse_path", result |-> Raised("ValueError")]
    /\ pc = "raised" => Len(seen) \in Failing
    /\ Len(c) = Len(seen) - (IF pc = "raised" THEN 1 ELSE 0)
    /\ \A i \in 1..Len(c) : c[i] = ParseEntry(Entries[i]).value
    /\ pc = "returned" =>
          /\ Failing = {}
          /\ seen = Entries
          /\ out = [call |-> "parse_path", result |-> Returned(c)]
    /\ pc \notin {"raised", "returned"} => out = [call |-> "none"]

C6_Witness ==
    /\ pc = "raised"
    /\ Len(c) >= 1
    /\ Len(seen) < Len(Entries)
    /\ Len(Kept(files)) < Len(files)

=============================================================================
